---- MODULE Spec2Model ----
(***************************************************************************)
(* Model of the quotation pipeline: the layout-tolerant sheet extractor    *)
(* (excel_utils.py), the price-history table (level1_build_db.py), the     *)
(* four-tier price resolution (level3_match_prices.py) and the override    *)
(* step of the estimate writer (level4_generate_estimate.py).              *)
(*                                                                         *)
(* Conventions.  Python's None is the empty sequence <<>> and a present    *)
(* value v is <<v>>.  Text is a sequence of one-character strings, so the  *)
(* empty string is <<>> as well.  Record fields carry English names for    *)
(* the Korean attributes of the source: item_name = 품명, spec_code = 규격,  *)
(* unit_price = 단가, amount = 금액, purchase_quantity = 구매량,             *)
(* maker = 제조사, unit = 단위, quantity = 수량.                            *)
(* file_datetime is stored by the source as ISO-8601 text and compared as  *)
(* text by SQLite; that order coincides with the order of the instants,    *)
(* which are modelled as naturals.  String literals of the source are      *)
(* written in ASCII: match_method "exact" = "품명+규격", "spec_only" =       *)
(* "규격", "spec_fuzzy" = "규격-유사", "name_only" = "품명"; status          *)
(* "priced" = "매칭", "no_price_found" = "단가 없음".                        *)
(***************************************************************************)
EXTENDS Integers, Sequences, FiniteSets, TLC

VARIABLES
    db,          \* committed rows of table estimate_items, in rowid order
    db_init,     \* TRUE once init_db has created the table
    requests,    \* the request list handed to the last resolution
    results,     \* the MatchedRow list the last resolution produced
    raised,      \* TRUE when the last operation ended by raising
    df,          \* the sheet grid handed to the last sheet parser
    header_info, \* what the header search of the last parse returned
    parsed,      \* the rows the last sheet parser returned
    sheet_kind,  \* which parser ran last: "none", "estimate" or "request"
    run_files,   \* estimate_files of the last build_db run
    runs,        \* how many times build_db has been called
    resolved,    \* what match_prices returned to the last generate_estimate
    overrides,   \* the override map of the last generate_estimate
    norm_arg,    \* the argument of the last normalize_text call
    norm_ret,    \* what that call returned
    conn_open,   \* TRUE while a build_db run holds its connection
    pending,     \* rows that run has inserted and not committed
    queue        \* the documents that run has still to parse

sheet_vars == <<df, header_info, parsed, sheet_kind>>
index_vars == <<db, db_init, requests, results, raised>>
run_vars == <<run_files, runs>>
override_vars == <<resolved, overrides>>
text_vars == <<norm_arg, norm_ret>>
txn_vars == <<conn_open, pending, queue>>
vars == <<db, db_init, requests, results, raised, df, header_info, parsed,
          sheet_kind, run_files, runs, resolved, overrides, norm_arg,
          norm_ret, conn_open, pending, queue>>

None == <<>>
Some(v) == <<v>>
IsNone(o) == o = <<>>
Val(o) == o[1]

(***************************************************************************)
(* Bounds of the model.                                                    *)
(***************************************************************************)
MaxRecords == 2
MaxGridRows == 3

-----------------------------------------------------------------------------
(***************************************************************************)
(* Sequence helpers.                                                       *)
(***************************************************************************)
EndsWith(s, suffix) ==
    /\ Len(suffix) <= Len(s)
    /\ \A i \in 1..Len(suffix) : s[Len(s) - Len(suffix) + i] = suffix[i]

Range(s) == { s[i] : i \in 1..Len(s) }

Last(s) == s[Len(s)]

-----------------------------------------------------------------------------
(***************************************************************************)
(* Cell values and excel_utils.normalize_text / to_float.  A cell is None, *)
(* a float NaN (pandas' empty cell) or a string.  The characters of the    *)
(* model are the Hangul syllables of the header labels, written by their   *)
(* romanisation ("pum" "myeong" = 품명), the conjoining jamo "J_s" and      *)
(* "J_u", which NFC composes into the syllable "su", digits, the comma,    *)
(* the space and the line feed.                                            *)
(***************************************************************************)
NoneCell == [kind |-> "none", text |-> <<>>]
NaNCell == [kind |-> "nan", text |-> <<>>]
StrCell(t) == [kind |-> "str", text |-> t]
\* an int cell; text is what str(value) gives, its decimal digits
IntCell(t) == [kind |-> "int", text |-> t]

IsSpace(c) == c \in {" ", "\n"}
NotSpace(c) == ~IsSpace(c)

\* canonical composition of the pair (a, b), or "" when the pair does not compose
Composed(a, b) == IF a = "J_s" /\ b = "J_u" THEN "su" ELSE ""

RECURSIVE NFC(_)
\* unicodedata.normalize("NFC", text)
NFC(t) ==
    IF Len(t) < 2 THEN t
    ELSE IF Composed(t[1], t[2]) # ""
         THEN NFC(<<Composed(t[1], t[2])>> \o SubSeq(t, 3, Len(t)))
         ELSE <<t[1]>> \o NFC(Tail(t))

normalize_text(value) ==
    IF value.kind = "none" THEN <<>>
    ELSE IF value.kind = "nan" THEN <<>>
    ELSE SelectSeq(NFC(value.text), NotSpace)

Digits == {"0", "1", "2", "3", "4", "5", "6", "7", "8", "9"}

DigitValue(c) ==
    CASE c = "0" -> 0 [] c = "1" -> 1 [] c = "2" -> 2 [] c = "3" -> 3
      [] c = "4" -> 4 [] c = "5" -> 5 [] c = "6" -> 6 [] c = "7" -> 7
      [] c = "8" -> 8 [] c = "9" -> 9

RECURSIVE strip(_)
\* str.strip(): leading and trailing whitespace removed
strip(t) ==
    IF t = <<>> THEN t
    ELSE IF IsSpace(Head(t)) THEN strip(Tail(t))
    ELSE IF IsSpace(Last(t)) THEN strip(SubSeq(t, 1, Len(t) - 1))
    ELSE t

RECURSIVE DecimalValue(_)
DecimalValue(t) ==
    IF t = <<>> THEN 0
    ELSE 10 * DecimalValue(SubSeq(t, 1, Len(t) - 1)) + DigitValue(Last(t))

NotComma(c) == c # ","

\* to_float: None for an absent cell, empty text or text float() rejects
to_float(value) ==
    IF value.kind = "none" THEN None
    ELSE IF value.kind = "nan" THEN None
    ELSE IF value.kind = "int" THEN Some(DecimalValue(value.text))
    ELSE LET text == SelectSeq(strip(value.text), NotComma)
         IN  IF text = <<>> THEN None
             ELSE IF \A i \in 1..Len(text) : text[i] \in Digits
                  THEN Some(DecimalValue(text))
                  ELSE None

-----------------------------------------------------------------------------
(***************************************************************************)
(* Header search (find_header_row, find_request_header_row).  Column and   *)
(* row indices are 0-based as in the source; header_map is a function from *)
(* the labels found to their column index.                                 *)
(***************************************************************************)
L_item_name == <<"pum", "myeong">>
L_spec_code == <<"gyu", "gyeok">>
L_unit == <<"dan", "wi">>
L_quantity == <<"su", "ryang">>
L_unit_price == <<"dan", "ga">>
L_amount == <<"geum", "aek">>
L_maker == <<"je", "jo", "sa">>
L_purchase_quantity == <<"gu", "mae", "ryang">>

REQUIRED_HEADERS ==
    <<L_item_name, L_spec_code, L_unit, L_quantity, L_unit_price, L_amount>>
REQUEST_HEADERS ==
    <<L_item_name, L_spec_code, L_maker, L_unit, L_purchase_quantity>>

NormalizedRow(row) == [c \in 1..Len(row) |-> normalize_text(row[c])]

MapPut(header_map, key, col_idx) ==
    [x \in (DOMAIN header_map) \cup {key} |->
        IF x = key THEN col_idx ELSE header_map[x]]

EmptyMap == [x \in {} |-> 0]

RECURSIVE EstimateHeaderMap_last_wins(_, _, _)
\* variant: a repeated label overwrites the column recorded for it
EstimateHeaderMap_last_wins(normalized, pos, header_map) ==
    IF pos > Len(normalized) THEN header_map
    ELSE LET cell == normalized[pos]
         IN  IF cell \in Range(REQUIRED_HEADERS)
             THEN EstimateHeaderMap_last_wins(normalized, pos + 1,
                                              MapPut(header_map, cell, pos - 1))
             ELSE EstimateHeaderMap_last_wins(normalized, pos + 1, header_map)

RECURSIVE EstimateHeaderMap(_, _, _)
\* the inner loop of find_header_row from position pos of the normalized row
EstimateHeaderMap(normalized, pos, header_map) ==
    IF pos > Len(normalized) THEN header_map
    ELSE LET cell == normalized[pos]
         IN  IF cell \in Range(REQUIRED_HEADERS) /\ cell \notin DOMAIN header_map
             THEN EstimateHeaderMap(normalized, pos + 1,
                                    MapPut(header_map, cell, pos - 1))
             ELSE EstimateHeaderMap(normalized, pos + 1, header_map)

RECURSIVE find_header_row_from(_, _)
find_header_row_from(grid, row_pos) ==
    IF row_pos > Len(grid) THEN None
    ELSE LET header_map ==
                 EstimateHeaderMap(NormalizedRow(grid[row_pos]), 1, EmptyMap)
         IN  IF \A h \in Range(REQUIRED_HEADERS) : h \in DOMAIN header_map
             THEN Some([row_idx |-> row_pos - 1, header_map |-> header_map])
             ELSE find_header_row_from(grid, row_pos + 1)

find_header_row(grid) == find_header_row_from(grid, 1)

RECURSIVE RequestHeaderMap(_, _, _)
\* the inner loop of find_request_header_row
RequestHeaderMap(normalized, pos, header_map) ==
    IF pos > Len(normalized) THEN header_map
    ELSE LET cell == normalized[pos]
             m1 == IF cell \in Range(REQUEST_HEADERS) /\ cell \notin DOMAIN header_map
                   THEN MapPut(header_map, cell, pos - 1)
                   ELSE header_map
             m2 == IF cell = L_quantity /\ L_purchase_quantity \notin DOMAIN m1
                   THEN MapPut(m1, L_purchase_quantity, pos - 1)
                   ELSE m1
         IN  RequestHeaderMap(normalized, pos + 1, m2)

RECURSIVE find_request_header_row_from(_, _)
find_request_header_row_from(grid, row_pos) ==
    IF row_pos > Len(grid) THEN None
    ELSE LET header_map ==
                 RequestHeaderMap(NormalizedRow(grid[row_pos]), 1, EmptyMap)
         IN  IF /\ \A h \in Range(REQUEST_HEADERS) \ {L_purchase_quantity} :
                      h \in DOMAIN header_map
                /\ L_purchase_quantity \in DOMAIN header_map
             THEN Some([row_idx |-> row_pos - 1, header_map |-> header_map])
             ELSE find_request_header_row_from(grid, row_pos + 1)

find_request_header_row(grid) == find_request_header_row_from(grid, 1)

-----------------------------------------------------------------------------
(***************************************************************************)
(* Data-region extraction (iter_estimate_rows, parse_estimate_sheet,       *)
(* parse_request_sheet).  The provenance columns of a price row            *)
(* (source_file, file_datetime) are the same for every row of a document   *)
(* and are attached where the document is ingested.                        *)
(***************************************************************************)
RECURSIVE iter_estimate_rows_name_only(_, _, _, _, _)
\* variant: a row counts as data only when its item_name cell has text
iter_estimate_rows_name_only(grid, row_pos, header_map, data_rows, empty_streak) ==
    IF row_pos > Len(grid) THEN <<>>
    ELSE LET row == grid[row_pos]
             values == [key \in Range(REQUIRED_HEADERS) |->
                          IF header_map[key] < Len(row)
                          THEN row[header_map[key] + 1] ELSE NoneCell]
             has_any == normalize_text(values[L_item_name]) # <<>>
         IN  IF has_any
             THEN <<values>> \o
                  iter_estimate_rows_name_only(grid, row_pos + 1, header_map,
                                               data_rows + 1, 0)
             ELSE IF data_rows > 0
                  THEN IF empty_streak + 1 >= 2
                       THEN <<>>
                       ELSE iter_estimate_rows_name_only(grid, row_pos + 1,
                                header_map, data_rows, empty_streak + 1)
                  ELSE iter_estimate_rows_name_only(grid, row_pos + 1,
                           header_map, data_rows, empty_streak)

RECURSIVE iter_estimate_rows_from(_, _, _, _, _)
\* the values yielded from grid position row_pos on
iter_estimate_rows_from(grid, row_pos, header_map, data_rows, empty_streak) ==
    IF row_pos > Len(grid) THEN <<>>
    ELSE LET row == grid[row_pos]
             values == [key \in Range(REQUIRED_HEADERS) |->
                          IF header_map[key] < Len(row)
                          THEN row[header_map[key] + 1] ELSE NoneCell]
             has_any == \E key \in Range(REQUIRED_HEADERS) :
                           normalize_text(values[key]) # <<>>
         IN  IF has_any
             THEN <<values>> \o
                  iter_estimate_rows_from(grid, row_pos + 1, header_map,
                                          data_rows + 1, 0)
             ELSE IF data_rows > 0
                  THEN IF empty_streak + 1 >= 2
                       THEN <<>>
                       ELSE iter_estimate_rows_from(grid, row_pos + 1, header_map,
                                                    data_rows, empty_streak + 1)
                  ELSE iter_estimate_rows_from(grid, row_pos + 1, header_map,
                                               data_rows, empty_streak)

iter_estimate_rows(grid, header_row, header_map) ==
    iter_estimate_rows_from(grid, header_row + 2, header_map, 0, 0)

RECURSIVE EstimateRowsOf_keep_nameless(_)
\* variant: a yielded row is kept whether or not it has an item name
EstimateRowsOf_keep_nameless(yielded) ==
    IF yielded = <<>> THEN <<>>
    ELSE LET values == Head(yielded)
             item_name == normalize_text(values[L_item_name])
         IN  << [item_name |-> item_name,
                 spec_code |-> normalize_text(values[L_spec_code]),
                 unit |-> normalize_text(values[L_unit]),
                 quantity |-> to_float(values[L_quantity]),
                 unit_price |-> to_float(values[L_unit_price]),
                 amount |-> to_float(values[L_amount])] >>
             \o EstimateRowsOf_keep_nameless(Tail(yielded))

RECURSIVE EstimateRowsOf(_)
\* the loop of parse_estimate_sheet over the yielded values
EstimateRowsOf(yielded) ==
    IF yielded = <<>> THEN <<>>
    ELSE LET values == Head(yielded)
             item_name == normalize_text(values[L_item_name])
         IN  IF item_name = <<>> THEN EstimateRowsOf(Tail(yielded))
             ELSE << [item_name |-> item_name,
                      spec_code |-> normalize_text(values[L_spec_code]),
                      unit |-> normalize_text(values[L_unit]),
                      quantity |-> to_float(values[L_quantity]),
                      unit_price |-> to_float(values[L_unit_price]),
                      amount |-> to_float(values[L_amount])] >>
                  \o EstimateRowsOf(Tail(yielded))

parse_estimate_sheet(grid) ==
    LET info == find_header_row(grid)
    IN  IF IsNone(info) THEN <<>>
        ELSE EstimateRowsOf(iter_estimate_rows(grid, Val(info).row_idx,
                                               Val(info).header_map))

RECURSIVE RequestRowsFrom_first_blank(_, _, _, _, _)
\* variant: the first blank row after a data row ends the extraction
RequestRowsFrom_first_blank(grid, row_pos, header_map, data_rows, empty_streak) ==
    IF row_pos > Len(grid) THEN <<>>
    ELSE LET row == grid[row_pos]
             values == [key \in Range(REQUEST_HEADERS) |->
                          IF key \in DOMAIN header_map
                          THEN row[header_map[key] + 1] ELSE NoneCell]
             has_any == \E key \in Range(REQUEST_HEADERS) :
                           normalize_text(values[key]) # <<>>
             item_name == normalize_text(values[L_item_name])
         IN  IF has_any
             THEN (IF item_name = <<>> THEN <<>>
                   ELSE << [item_name |-> item_name,
                            spec_code |-> normalize_text(values[L_spec_code]),
                            maker |-> normalize_text(values[L_maker]),
                            unit |-> normalize_text(values[L_unit]),
                            purchase_quantity |->
                                to_float(values[L_purchase_quantity])] >>)
                  \o RequestRowsFrom_first_blank(grid, row_pos + 1, header_map,
                                                 data_rows + 1, 0)
             ELSE IF data_rows > 0
                  THEN <<>>
                  ELSE RequestRowsFrom_first_blank(grid, row_pos + 1, header_map,
                                                   data_rows, empty_streak)

RECURSIVE RequestRowsFrom(_, _, _, _, _)
\* the loop of parse_request_sheet from grid position row_pos on
RequestRowsFrom(grid, row_pos, header_map, data_rows, empty_streak) ==
    IF row_pos > Len(grid) THEN <<>>
    ELSE LET row == grid[row_pos]
             values == [key \in Range(REQUEST_HEADERS) |->
                          IF key \in DOMAIN header_map
                          THEN row[header_map[key] + 1] ELSE NoneCell]
             has_any == \E key \in Range(REQUEST_HEADERS) :
                           normalize_text(values[key]) # <<>>
             item_name == normalize_text(values[L_item_name])
         IN  IF has_any
             THEN (IF item_name = <<>> THEN <<>>
                   ELSE << [item_name |-> item_name,
                            spec_code |-> normalize_text(values[L_spec_code]),
                            maker |-> normalize_text(values[L_maker]),
                            unit |-> normalize_text(values[L_unit]),
                            purchase_quantity |->
                                to_float(values[L_purchase_quantity])] >>)
                  \o RequestRowsFrom(grid, row_pos + 1, header_map,
                                     data_rows + 1, 0)
             ELSE IF data_rows > 0
                  THEN IF empty_streak + 1 >= 2
                       THEN <<>>
                       ELSE RequestRowsFrom(grid, row_pos + 1, header_map,
                                            data_rows, empty_streak + 1)
                  ELSE RequestRowsFrom(grid, row_pos + 1, header_map,
                                       data_rows, empty_streak)

parse_request_sheet(grid) ==
    LET info == find_request_header_row(grid)
    IN  IF IsNone(info) THEN <<>>
        ELSE RequestRowsFrom(grid, Val(info).row_idx + 2,
                             Val(info).header_map, 0, 0)

-----------------------------------------------------------------------------
(***************************************************************************)
(* The file system and the parsed price rows (excel_utils.EstimateRow).    *)
(***************************************************************************)
\* the quotation files on disk and the time get_file_datetime reports for each
EstimateFiles == {"q1.xlsx", "q2.xlsx"}
get_file_datetime(path) == IF path = "q1.xlsx" THEN 1 ELSE 2

ItemNames == {"Bolt", "Nut"}
\* spec codes as stored: "", "A1", "b-A1"
StoredSpecCodes == { <<>>, <<"A", "1">>, <<"b", "-", "A", "1">> }
\* spec codes a request may carry: the stored ones and "-"
RequestSpecCodes == StoredSpecCodes \cup { <<"-">> }
UnitPrices == {100, 120}
Quantities == {3}

\* one row of estimate_items
EstimateRow(path, name, spec, price) ==
    [source_file |-> path, file_datetime |-> get_file_datetime(path),
     item_name |-> name, spec_code |-> spec, unit_price |-> price]

RequestRow(name, spec, qty) ==
    [item_name |-> name, spec_code |-> spec, purchase_quantity |-> qty]

RequestRows ==
    { RequestRow(n, s, q) : n \in ItemNames, s \in RequestSpecCodes,
                            q \in {None} \cup { Some(v) : v \in Quantities } }

-----------------------------------------------------------------------------
(***************************************************************************)
(* level3_match_prices.normalize_code: upper-case, then drop every         *)
(* character outside [0-9a-zA-Z].                                          *)
(***************************************************************************)
AsciiAlnum == {"A", "B", "a", "b", "0", "1"}

upper(c) == CASE c = "a" -> "A" [] c = "b" -> "B" [] OTHER -> c

IsAsciiAlnum(c) == c \in AsciiAlnum

normalize_code(value) ==
    IF value = <<>> THEN <<>>
    ELSE SelectSeq([i \in 1..Len(value) |-> upper(value[i])], IsAsciiAlnum)

-----------------------------------------------------------------------------
(***************************************************************************)
(* SQLite queries over estimate_items.  ORDER BY file_datetime DESC leaves *)
(* the order of rows with equal file_datetime to the engine, so a query    *)
(* yields any of the orderings that are sorted on that column.             *)
(***************************************************************************)
Perms(n) == { p \in [1..n -> 1..n] : \A i, j \in 1..n : i # j => p[i] # p[j] }

\* variant: ORDER BY file_datetime ASC
OrderByFileDatetimeAsc(rows) ==
    { [i \in 1..Len(rows) |-> rows[p[i]]] :
        p \in { q \in Perms(Len(rows)) :
                  \A i, j \in 1..Len(rows) :
                     i < j => rows[q[i]].file_datetime <= rows[q[j]].file_datetime } }

OrderByFileDatetimeDesc(rows) ==
    { [i \in 1..Len(rows) |-> rows[p[i]]] :
        p \in { q \in Perms(Len(rows)) :
                  \A i, j \in 1..Len(rows) :
                     i < j => rows[q[i]].file_datetime >= rows[q[j]].file_datetime } }

\* LIMIT 1 followed by fetchone(): the first row of the ordering, or None
FetchOne(orderings) ==
    { IF s = <<>> THEN None ELSE Some(Head(s)) : s \in orderings }

\* variant: the spec code is left out of the WHERE clause
lookup_latest_price_any_spec(conn, name, spec) ==
    LET Where(r) == r.item_name = name
    IN  FetchOne(OrderByFileDatetimeDesc(SelectSeq(conn, Where)))

lookup_latest_price(conn, name, spec) ==
    LET Where(r) == r.item_name = name /\ r.spec_code = spec
    IN  FetchOne(OrderByFileDatetimeDesc(SelectSeq(conn, Where)))

\* variant: without the condition that the unit price is not NULL
lookup_candidates_unfiltered(conn, name, spec) ==
    LET Where(r) == r.item_name = name /\ r.spec_code = spec
    IN  OrderByFileDatetimeDesc(SelectSeq(conn, Where))

lookup_candidates(conn, name, spec) ==
    LET Where(r) == /\ r.item_name = name
                    /\ r.spec_code = spec
                    /\ ~IsNone(r.unit_price)
    IN  OrderByFileDatetimeDesc(SelectSeq(conn, Where))

lookup_latest_price_by_spec(conn, spec) ==
    LET Where(r) == r.spec_code = spec
    IN  FetchOne(OrderByFileDatetimeDesc(SelectSeq(conn, Where)))

lookup_latest_price_by_name(conn, name) ==
    LET Where(r) == r.item_name = name
    IN  FetchOne(OrderByFileDatetimeDesc(SelectSeq(conn, Where)))

\* variant: only target.endswith(candidate) is tested
FuzzyRowMatches_one_way(target, row) ==
    LET candidate == normalize_code(row.spec_code)
    IN  /\ candidate # <<>>
        /\ EndsWith(target, candidate)

\* the test of the scan loop: does the fuzzy lookup for target take this row
FuzzyRowMatches(target, row) ==
    LET candidate == normalize_code(row.spec_code)
    IN  /\ candidate # <<>>
        /\ EndsWith(target, candidate) \/ EndsWith(candidate, target)

lookup_latest_price_fuzzy_spec(conn, spec) ==
    LET target == normalize_code(spec)
        Where(r) == r.spec_code # <<>>
        Hit(r) == FuzzyRowMatches(target, r)
        FirstHit(s) == LET hits == SelectSeq(s, Hit)
                       IN  IF hits = <<>> THEN None ELSE Some(Head(hits))
    IN  IF target = <<>> THEN {None}
        ELSE { FirstHit(s) : s \in OrderByFileDatetimeDesc(SelectSeq(conn, Where)) }

-----------------------------------------------------------------------------
(***************************************************************************)
(* level3_match_prices.match_prices.                                       *)
(***************************************************************************)
Found(m, method) ==
    [row |-> m, match_method |-> IF IsNone(m) THEN None ELSE Some(method)]

\* the tier cascade of one request: the possible (matched_row, match_method)
TierCascade(conn, row) ==
    LET t1 == { Found(m, "exact") :
                  m \in lookup_latest_price(conn, row.item_name, row.spec_code) }
        Tier2(x) == IF IsNone(x.row) /\ row.spec_code # <<>>
                    THEN { Found(m, "spec_only") :
                             m \in lookup_latest_price_by_spec(conn, row.spec_code) }
                    ELSE {x}
        Tier3(x) == IF IsNone(x.row) /\ row.spec_code # <<>>
                    THEN { Found(m, "spec_fuzzy") :
                             m \in lookup_latest_price_fuzzy_spec(conn, row.spec_code) }
                    ELSE {x}
        Tier4(x) == IF IsNone(x.row) /\ row.item_name # ""
                    THEN { Found(m, "name_only") :
                             m \in lookup_latest_price_by_name(conn, row.item_name) }
                    ELSE {x}
        t2 == UNION { Tier2(x) : x \in t1 }
        t3 == UNION { Tier3(x) : x \in t2 }
    IN  UNION { Tier4(x) : x \in t3 }

\* the candidates column of one request
CandidatesOf(conn, row) ==
    LET Entry(c) == [unit_price |-> c.unit_price, source_file |-> c.source_file,
                     file_datetime |-> c.file_datetime]
    IN  IF row.item_name # "" /\ row.spec_code # <<>>
        THEN { [i \in 1..Len(cs) |-> Entry(cs[i])] :
                 cs \in lookup_candidates(conn, row.item_name, row.spec_code) }
        ELSE { <<>> }

\* variant: a record without a price is reported as a match
MatchedRow_any_record(row, candidates, x) ==
    IF ~IsNone(x.row)
    THEN LET price == Val(x.row).unit_price
         IN  [request |-> row,
              matched |-> TRUE,
              match_method |-> x.match_method,
              matched_source_file |-> Some(Val(x.row).source_file),
              matched_file_datetime |-> Some(Val(x.row).file_datetime),
              unit_price |-> price,
              amount |-> IF ~IsNone(price) /\ ~IsNone(row.purchase_quantity)
                         THEN Some(Val(price) * Val(row.purchase_quantity))
                         ELSE None,
              status |-> "priced",
              candidates |-> candidates]
    ELSE [request |-> row,
          matched |-> FALSE,
          match_method |-> x.match_method,
          matched_source_file |-> None,
          matched_file_datetime |-> None,
          unit_price |-> None,
          amount |-> None,
          status |-> "no_price_found",
          candidates |-> candidates]

\* the MatchedRow appended for one request, given the cascade's outcome
MatchedRow(row, candidates, x) ==
    IF ~IsNone(x.row) /\ ~IsNone(Val(x.row).unit_price)
    THEN LET price == Val(Val(x.row).unit_price)
         IN  [request |-> row,
              matched |-> TRUE,
              match_method |-> x.match_method,
              matched_source_file |-> Some(Val(x.row).source_file),
              matched_file_datetime |-> Some(Val(x.row).file_datetime),
              unit_price |-> Some(price),
              amount |-> IF ~IsNone(row.purchase_quantity)
                         THEN Some(price * Val(row.purchase_quantity))
                         ELSE None,
              status |-> "priced",
              candidates |-> candidates]
    ELSE [request |-> row,
          matched |-> FALSE,
          match_method |-> x.match_method,
          matched_source_file |-> IF ~IsNone(x.row)
                                  THEN Some(Val(x.row).source_file) ELSE None,
          matched_file_datetime |-> IF ~IsNone(x.row)
                                    THEN Some(Val(x.row).file_datetime) ELSE None,
          unit_price |-> None,
          amount |-> None,
          status |-> "no_price_found",
          candidates |-> candidates]

\* one iteration of the loop: every MatchedRow the queries can produce
MatchOne(conn, row) ==
    { MatchedRow(row, cands, x) :
        cands \in CandidatesOf(conn, row), x \in TierCascade(conn, row) }

RECURSIVE match_prices(_, _)
\* the result lists match_prices can return for the request list reqs
match_prices(conn, reqs) ==
    IF reqs = <<>> THEN { <<>> }
    ELSE { <<m>> \o rest : m \in MatchOne(conn, Head(reqs)),
                           rest \in match_prices(conn, Tail(reqs)) }

-----------------------------------------------------------------------------
(***************************************************************************)
(* level1_build_db.build_db over the documents of one folder.  A document  *)
(* is its path, whether pandas can read it, and the rows                   *)
(* parse_estimate_file extracts from it.                                   *)
(***************************************************************************)
Document(path, readable, rows) ==
    [path |-> path, readable |-> readable, rows |-> rows]

\* the EstimateRow list parse_estimate_file returns for a readable document
parse_estimate_file(doc) ==
    [i \in 1..Len(doc.rows) |->
        EstimateRow(doc.path, doc.rows[i].item_name, doc.rows[i].spec_code,
                    doc.rows[i].unit_price)]

RECURSIVE insert_rows_dedup(_, _)
\* variant: a row equal to one already in the table is not inserted again
insert_rows_dedup(table, files) ==
    IF files = <<>> THEN table
    ELSE insert_rows_dedup(
             table \o SelectSeq(parse_estimate_file(Head(files)),
                                LAMBDA row : row \notin Range(table)),
             Tail(files))

RECURSIVE insert_rows(_, _)
\* the table after parsing and inserting every document of files, in order
insert_rows(table, files) ==
    IF files = <<>> THEN table
    ELSE insert_rows(table \o parse_estimate_file(Head(files)), Tail(files))

RowsIn(files) == Len(insert_rows(<<>>, files))

BuildDb(files) ==
    /\ IF files = <<>>
       THEN \* SystemExit before the database is opened
            /\ raised' = TRUE
            /\ UNCHANGED <<db, db_init>>
       ELSE /\ db_init' = TRUE
            /\ IF \A i \in 1..Len(files) : files[i].readable
               THEN /\ db' = insert_rows(db, files)
                    /\ raised' = FALSE
               ELSE \* the exception skips commit(); close() rolls back
                    /\ db' = db
                    /\ raised' = TRUE
    /\ run_files' = files
    /\ runs' = runs + 1
    /\ requests' = <<>>
    /\ results' = <<>>
    /\ resolved' = <<>>
    /\ overrides' = EmptyMap
    /\ UNCHANGED <<sheet_vars, text_vars, txn_vars>>

(***************************************************************************)
(* build_db step by step, for the states other connections can see while   *)
(* a run is under way: the connection is opened and the table created, the *)
(* documents are parsed and inserted one at a time inside one transaction, *)
(* and the transaction is committed after the last document.               *)
(***************************************************************************)
BuildOpen(files) ==
    /\ ~conn_open
    /\ IF files = <<>>
       THEN \* SystemExit before the database is opened
            /\ raised' = TRUE
            /\ UNCHANGED <<db_init, conn_open, queue>>
       ELSE /\ db_init' = TRUE
            /\ conn_open' = TRUE
            /\ queue' = files
            /\ raised' = FALSE
    /\ pending' = <<>>
    /\ run_files' = files
    /\ runs' = runs + 1
    /\ UNCHANGED <<db, requests, results, sheet_vars, override_vars, text_vars>>

\* variant: the rows of each document are committed as they are inserted
BuildFile_commit_each ==
    /\ conn_open
    /\ queue # <<>>
    /\ IF Head(queue).readable
       THEN /\ db' = db \o parse_estimate_file(Head(queue))
            /\ pending' = pending \o parse_estimate_file(Head(queue))
            /\ queue' = Tail(queue)
            /\ UNCHANGED <<conn_open, raised>>
       ELSE /\ pending' = <<>>
            /\ queue' = <<>>
            /\ conn_open' = FALSE
            /\ raised' = TRUE
            /\ UNCHANGED db
    /\ UNCHANGED <<db_init, requests, results, sheet_vars, run_vars,
                   override_vars, text_vars>>

\* one iteration of the loop over estimate_files
BuildFile ==
    /\ conn_open
    /\ queue # <<>>
    /\ IF Head(queue).readable
       THEN /\ pending' = pending \o parse_estimate_file(Head(queue))
            /\ queue' = Tail(queue)
            /\ UNCHANGED <<conn_open, raised>>
       ELSE \* the exception skips commit(); close() rolls back
            /\ pending' = <<>>
            /\ queue' = <<>>
            /\ conn_open' = FALSE
            /\ raised' = TRUE
    /\ UNCHANGED <<db, db_init, requests, results, sheet_vars, run_vars,
                   override_vars, text_vars>>

\* conn.commit() and conn.close() after the last document
BuildCommit ==
    /\ conn_open
    /\ queue = <<>>
    /\ db' = db \o pending
    /\ pending' = <<>>
    /\ conn_open' = FALSE
    /\ raised' = FALSE
    /\ UNCHANGED <<db_init, queue, requests, results, sheet_vars, run_vars,
                   override_vars, text_vars>>

MatchPrices(reqs) ==
    /\ results = <<>>
    /\ requests' = reqs
    /\ IF db_init
       THEN /\ results' \in match_prices(db, reqs)
            /\ raised' = FALSE
       ELSE \* no table estimate_items: the first query raises
            /\ results' = <<>>
            /\ raised' = TRUE
    /\ resolved' = results'
    /\ overrides' = EmptyMap
    /\ UNCHANGED <<db, db_init, sheet_vars, run_vars, text_vars, txn_vars>>

(***************************************************************************)
(* level4_generate_estimate.generate_estimate up to the override step.     *)
(* overrides maps 0-based list positions to None (clear) or a unit price.  *)
(***************************************************************************)
\* variant: the amount is not recomputed from the replacement price
override_item_stale_amount(item, unit_price) ==
    IF IsNone(unit_price)
    THEN [item EXCEPT !.unit_price = None, !.amount = None]
    ELSE [item EXCEPT !.unit_price = unit_price]

override_item(item, unit_price) ==
    IF IsNone(unit_price)
    THEN [item EXCEPT !.unit_price = None, !.amount = None]
    ELSE [item EXCEPT
            !.unit_price = unit_price,
            !.amount = IF ~IsNone(item.request.purchase_quantity)
                       THEN Some(Val(unit_price) * Val(item.request.purchase_quantity))
                       ELSE None]

\* variant: the keys of the override map are taken as 1-based positions
apply_overrides_one_based(matched, override_map) ==
    [k \in 1..Len(matched) |->
        IF k \in DOMAIN override_map
        THEN override_item(matched[k], override_map[k])
        ELSE matched[k]]

apply_overrides(matched, override_map) ==
    [k \in 1..Len(matched) |->
        IF (k - 1) \in DOMAIN override_map
        THEN override_item(matched[k], override_map[k - 1])
        ELSE matched[k]]

GenerateEstimate(reqs, override_map) ==
    /\ results = <<>>
    /\ requests' = reqs
    /\ IF db_init
       THEN /\ \E matched \in match_prices(db, reqs) :
                 /\ resolved' = matched
                 /\ results' = apply_overrides(matched, override_map)
            /\ raised' = FALSE
       ELSE /\ resolved' = <<>>
            /\ results' = <<>>
            /\ raised' = TRUE
    /\ overrides' = override_map
    /\ UNCHANGED <<db, db_init, sheet_vars, run_vars, text_vars, txn_vars>>

ParseEstimateSheet(grid) ==
    /\ sheet_kind = "none"
    /\ df' = grid
    /\ header_info' = find_header_row(grid)
    /\ parsed' = parse_estimate_sheet(grid)
    /\ sheet_kind' = "estimate"
    /\ raised' = FALSE
    /\ UNCHANGED <<db, db_init, requests, results>>
    /\ UNCHANGED <<run_vars, override_vars, text_vars, txn_vars>>

ParseRequestSheet(grid) ==
    /\ sheet_kind = "none"
    /\ df' = grid
    /\ header_info' = find_request_header_row(grid)
    /\ parsed' = parse_request_sheet(grid)
    /\ sheet_kind' = "request"
    /\ raised' = FALSE
    /\ UNCHANGED <<db, db_init, requests, results>>
    /\ UNCHANGED <<run_vars, override_vars, text_vars, txn_vars>>

\* one call normalize_text(value)
NormalizeText(value) ==
    /\ norm_arg' = value
    /\ norm_ret' = normalize_text(value)
    /\ UNCHANGED <<index_vars, sheet_vars, run_vars, override_vars, txn_vars>>

\* the frame and the parsed rows of a sheet are dropped after the call
DiscardSheet ==
    /\ sheet_kind # "none"
    /\ df' = <<>>
    /\ header_info' = None
    /\ parsed' = <<>>
    /\ sheet_kind' = "none"
    /\ UNCHANGED <<index_vars, run_vars, override_vars, text_vars, txn_vars>>

\* RequestRecords and MatchResults are transient: the caller drops the list
DiscardResults ==
    /\ results # <<>>
    /\ requests' = <<>>
    /\ results' = <<>>
    /\ resolved' = <<>>
    /\ overrides' = EmptyMap
    /\ UNCHANGED <<db, db_init, raised, sheet_vars, run_vars, text_vars,
                   txn_vars>>

-----------------------------------------------------------------------------
Init ==
    /\ db = <<>>
    /\ db_init = FALSE
    /\ requests = <<>>
    /\ results = <<>>
    /\ raised = FALSE
    /\ df = <<>>
    /\ header_info = None
    /\ parsed = <<>>
    /\ sheet_kind = "none"
    /\ run_files = <<>>
    /\ runs = 0
    /\ resolved = <<>>
    /\ overrides = EmptyMap
    /\ norm_arg = NoneCell
    /\ norm_ret = <<>>
    /\ conn_open = FALSE
    /\ pending = <<>>
    /\ queue = <<>>

(***************************************************************************)
(* SpecMatch: single-row quotation documents are ingested one run at a     *)
(* time and single requests are resolved against the table.                *)
(***************************************************************************)
ParsedPriceRows ==
    { [item_name |-> n, spec_code |-> s, unit_price |-> p] :
        n \in ItemNames, s \in StoredSpecCodes,
        p \in {None} \cup { Some(v) : v \in UnitPrices } }

MatchRuns ==
    { <<Document(f, TRUE, <<r>>)>> : f \in EstimateFiles, r \in ParsedPriceRows }

\* item names are interchangeable, so the requests all ask for the same one
MatchRequests == { r \in RequestRows : r.item_name = "Bolt" }

NextMatch ==
    \/ \E files \in MatchRuns :
         Len(db) + RowsIn(files) <= MaxRecords /\ BuildDb(files)
    \/ \E r \in MatchRequests : MatchPrices(<<r>>)
    \/ DiscardResults

SpecMatch == Init /\ [][NextMatch]_vars

-----------------------------------------------------------------------------
(***************************************************************************)
(* Vocabulary of the resolution properties: the rows of the table that     *)
(* qualify for each tier of a request, stated over the table itself.       *)
(***************************************************************************)
TierName == <<"exact", "spec_only", "spec_fuzzy", "name_only">>

IsSuffix(a, b) ==
    /\ Len(a) <= Len(b)
    /\ SubSeq(b, Len(b) - Len(a) + 1, Len(b)) = a

SuffixRelated(a, b) == IsSuffix(a, b) \/ IsSuffix(b, a)

ExactKeyRows(r) ==
    { i \in 1..Len(db) : /\ db[i].item_name = r.item_name
                         /\ db[i].spec_code = r.spec_code }

SpecKeyRows(r) ==
    IF r.spec_code = <<>> THEN {}
    ELSE { i \in 1..Len(db) : db[i].spec_code = r.spec_code }

FuzzyKeyRows(r) ==
    IF r.spec_code = <<>> \/ normalize_code(r.spec_code) = <<>> THEN {}
    ELSE { i \in 1..Len(db) :
             /\ db[i].spec_code # <<>>
             /\ normalize_code(db[i].spec_code) # <<>>
             /\ SuffixRelated(normalize_code(r.spec_code),
                              normalize_code(db[i].spec_code)) }

NameKeyRows(r) == { i \in 1..Len(db) : db[i].item_name = r.item_name }

TierRows(t, r) ==
    CASE t = 1 -> ExactKeyRows(r)
      [] t = 2 -> SpecKeyRows(r)
      [] t = 3 -> FuzzyKeyRows(r)
      [] t = 4 -> NameKeyRows(r)

Newest(S) ==
    { i \in S : \A j \in S : db[i].file_datetime >= db[j].file_datetime }

HasPrice(i) == ~IsNone(db[i].unit_price)

\* the tier's newest record carries a price / carries none / there is none
TierPriced(S) == S # {} /\ \A i \in Newest(S) : HasPrice(i)
TierPriceless(S) == S # {} /\ \A i \in Newest(S) : ~HasPrice(i)
TierUnusable(S) == S = {} \/ TierPriceless(S)

Resolved(k) == results[k]

\* C1: the tiers are tried in the order exact, spec-only, spec-fuzzy,
\* name-only; the first tier whose newest record carries a price resolves the
\* request, also when an earlier tier returned a record without a price.
C1_TierOrderContinues ==
    \A k \in 1..Len(results) :
      \A t \in 1..4 :
        LET m == Resolved(k)
        IN  ( /\ TierPriced(TierRows(t, m.request))
              /\ \A u \in 1..(t - 1) : TierUnusable(TierRows(u, m.request)) )
            => /\ m.status = "priced"
               /\ m.match_method = Some(TierName[t])

\* C2 as stated: a priced record under the request's exact key, anywhere in
\* the table, makes the result priced through the exact tier.
C2_AnyPricedExactWins ==
    \A k \in 1..Len(results) :
      LET m == Resolved(k)
      IN  (\E i \in ExactKeyRows(m.request) : HasPrice(i))
          => m.status = "priced" /\ m.match_method = Some("exact")

\* C2 amended: when the newest record under the request's exact key carries a
\* price, the result is priced through the exact tier with that record's
\* price, whatever other records the table holds.
C2_NewestPricedExactWins ==
    \A k \in 1..Len(results) :
      LET m == Resolved(k)
          K == ExactKeyRows(m.request)
      IN  TierPriced(K)
          => /\ m.status = "priced"
             /\ m.match_method = Some("exact")
             /\ \E i \in Newest(K) : m.unit_price = db[i].unit_price

\* a request resolved by the exact tier although the table holds a newer
\* record with the same spec code under another name
C2_Witness ==
    \E k \in 1..Len(results) :
      /\ Resolved(k).match_method = Some("exact")
      /\ Resolved(k).status = "priced"
      /\ \E i \in 1..Len(db) :
           /\ db[i].spec_code = Resolved(k).request.spec_code
           /\ db[i].item_name # Resolved(k).request.item_name
           /\ Some(db[i].file_datetime) # Resolved(k).matched_file_datetime
           /\ db[i].file_datetime = 2

\* C3: a request with an empty spec code is never resolved by the exact
\* tier; only the name-only tier can resolve it.
C3_EmptySpecNeverExact ==
    \A k \in 1..Len(results) :
      Resolved(k).request.spec_code = <<>>
      => Resolved(k).match_method \in {None, Some("name_only")}

\* C4: the record behind a result is a newest one among the rows that
\* qualify for the tier that produced it: provenance and price are those of
\* a row of greatest file_datetime in the tier's row set.
C4_TierSelectsNewest ==
    \A k \in 1..Len(results) :
      \A t \in 1..4 :
        LET m == Resolved(k)
            S == TierRows(t, m.request)
        IN  m.match_method = Some(TierName[t])
            => \E i \in S :
                 /\ \A j \in S : db[i].file_datetime >= db[j].file_datetime
                 /\ m.matched_source_file = Some(db[i].source_file)
                 /\ m.matched_file_datetime = Some(db[i].file_datetime)
                 /\ m.unit_price = db[i].unit_price

\* two exact-key records, 100 at time 1 and 120 at time 2, resolved to 120
C4_Witness ==
    \E k \in 1..Len(results) :
      /\ Resolved(k).match_method = Some("exact")
      /\ Resolved(k).unit_price = Some(120)
      /\ Resolved(k).matched_file_datetime = Some(2)
      /\ \E i \in ExactKeyRows(Resolved(k).request) :
           db[i].unit_price = Some(100) /\ db[i].file_datetime = 1

CandidateEntry(i) ==
    [unit_price |-> db[i].unit_price, source_file |-> db[i].source_file,
     file_datetime |-> db[i].file_datetime]

\* the list c holds exactly the rows S of the table, each as often as S does
SameRecords(c, S) ==
    /\ Len(c) = Cardinality(S)
    /\ \A i \in S :
         Cardinality({ j \in 1..Len(c) : c[j] = CandidateEntry(i) })
           = Cardinality({ j \in S : CandidateEntry(j) = CandidateEntry(i) })

NewestFirst(c) ==
    \A j, k \in 1..Len(c) : j < k => c[j].file_datetime >= c[k].file_datetime

PricedExactKeyRows(r) == { i \in ExactKeyRows(r) : HasPrice(i) }

\* C5 as stated: for every request the candidate list is exactly the priced
\* rows under the request's (item_name, spec_code), newest first.
C5_CandidatesAreExactKeyRows ==
    \A k \in 1..Len(results) :
      /\ SameRecords(Resolved(k).candidates,
                     PricedExactKeyRows(Resolved(k).request))
      /\ NewestFirst(Resolved(k).candidates)

\* C5 amended: for a request with a non-empty spec code the candidate list
\* is exactly the priced rows under its (item_name, spec_code), newest first,
\* whichever tier resolved it and whether or not a price was found; for a
\* request with an empty spec code the candidate list is empty.
C5_CandidatesOfKeyedRequests ==
    \A k \in 1..Len(results) :
      IF Resolved(k).request.spec_code # <<>>
      THEN /\ SameRecords(Resolved(k).candidates,
                          PricedExactKeyRows(Resolved(k).request))
           /\ NewestFirst(Resolved(k).candidates)
      ELSE Resolved(k).candidates = <<>>

\* no price was found, yet the candidate list reports an older priced record
C5_Witness ==
    \E k \in 1..Len(results) :
      /\ Resolved(k).status = "no_price_found"
      /\ Len(Resolved(k).candidates) = 1
      /\ Resolved(k).request.spec_code # <<>>

\* C7: when no tier's newest record carries a price but some tier has a
\* record, the result is no_price_found without a price and its provenance
\* is that of the newest record of the last such tier in tier order.
C7_ProvenanceOfLastPriceless ==
    \A k \in 1..Len(results) :
      LET m == Resolved(k)
          Hit == { t \in 1..4 : TierPriceless(TierRows(t, m.request)) }
          last == CHOOSE t \in Hit : \A u \in Hit : u <= t
      IN  ( /\ \A t \in 1..4 : TierUnusable(TierRows(t, m.request))
            /\ Hit # {} )
          => /\ m.status = "no_price_found"
             /\ IsNone(m.unit_price)
             /\ \E i \in Newest(TierRows(last, m.request)) :
                  /\ m.matched_source_file = Some(db[i].source_file)
                  /\ m.matched_file_datetime = Some(db[i].file_datetime)

\* the fuzzy lookup for spec code a, run on a table holding only row, takes it
FuzzyAccepts(a, row) ==
    lookup_latest_price_fuzzy_spec(<<row>>, a) = { Some(row) }

FuzzyRejects(a, row) ==
    lookup_latest_price_fuzzy_spec(<<row>>, a) = { None }

\* C8 as stated: for two spec codes that are present, whenever the fuzzy key
\* of one is a suffix of the other's, an empty key included, each code's
\* lookup accepts a record that carries the other code.
C8_FuzzySymmetricAnyKey ==
    \A k \in 1..Len(requests) :
      \A i \in 1..Len(db) :
        LET a == requests[k].spec_code
            b == db[i].spec_code
        IN  ( /\ a # <<>>
              /\ b # <<>>
              /\ SuffixRelated(normalize_code(a), normalize_code(b)) )
            => /\ FuzzyAccepts(a, db[i])
               /\ FuzzyAccepts(b, [db[i] EXCEPT !.spec_code = a])

\* C8 amended: for two spec codes whose fuzzy keys are both non-empty and of
\* which one is a suffix of the other, each code's lookup accepts a record
\* that carries the other code; when either fuzzy key is empty, neither
\* lookup accepts.
C8_FuzzySymmetricNonEmptyKeys ==
    \A k \in 1..Len(requests) :
      \A i \in 1..Len(db) :
        LET a == requests[k].spec_code
            b == db[i].spec_code
            swapped == [db[i] EXCEPT !.spec_code = a]
        IN  /\ ( /\ normalize_code(a) # <<>>
                 /\ normalize_code(b) # <<>>
                 /\ SuffixRelated(normalize_code(a), normalize_code(b)) )
               => FuzzyAccepts(a, db[i]) /\ FuzzyAccepts(b, swapped)
            /\ (normalize_code(a) = <<>> \/ normalize_code(b) = <<>>)
               => FuzzyRejects(a, db[i]) /\ FuzzyRejects(b, swapped)

\* request "A1" resolved through the fuzzy tier by a record with "b-A1"
C8_Witness ==
    \E k \in 1..Len(results) :
      /\ Resolved(k).match_method = Some("spec_fuzzy")
      /\ Len(normalize_code(Resolved(k).request.spec_code)) = 2
      /\ \E i \in 1..Len(db) : Len(normalize_code(db[i].spec_code)) = 3

-----------------------------------------------------------------------------
(***************************************************************************)
(* SpecEstimate: request lists are resolved and overridden against a table *)
(* of quotations for one item.                                             *)
(***************************************************************************)
MaxEstimateRecords == 1
MaxRequests == 2
OverridePrices == {150}

EstimateRuns ==
    { <<Document(f, TRUE, <<r>>)>> :
        f \in EstimateFiles,
        r \in { q \in ParsedPriceRows :
                  q.item_name = "Bolt" /\ q.spec_code = <<"A", "1">> } }

EstimateRequests ==
    { r \in RequestRows : r.item_name = "Bolt" /\ r.spec_code = <<"A", "1">> }

RequestLists ==
    UNION { [1..n -> EstimateRequests] : n \in 1..MaxRequests }

\* override maps over the positions 0..MaxRequests, one past the longest list
OverrideMaps ==
    UNION { [D -> {None} \cup { Some(v) : v \in OverridePrices }] :
              D \in SUBSET (0..MaxRequests) }

NextEstimate ==
    \/ \E files \in EstimateRuns :
         Len(db) + RowsIn(files) <= MaxEstimateRecords /\ BuildDb(files)
    \/ \E reqs \in RequestLists : MatchPrices(reqs)
    \/ \E reqs \in RequestLists, o \in OverrideMaps : GenerateEstimate(reqs, o)
    \/ DiscardResults

SpecEstimate == Init /\ [][NextEstimate]_vars

\* C6: in every result, after resolution and after overrides, amount is
\* unit_price * purchase_quantity when both are known and unknown otherwise.
C6_AmountIsProduct ==
    \A k \in 1..Len(results) :
      LET m == Resolved(k)
          q == m.request.purchase_quantity
      IN  IF ~IsNone(m.unit_price) /\ ~IsNone(q)
          THEN m.amount = Some(Val(m.unit_price) * Val(q))
          ELSE IsNone(m.amount)

\* a resolved price of 100 at position 0 was overridden to 150, amount 450,
\* next to a result left as resolved
C6_Witness ==
    /\ Len(results) = 2
    /\ results[1].unit_price = Some(150)
    /\ results[1].amount = Some(450)
    /\ results[1].status = "priced"
    /\ results[2].unit_price = Some(120)
    /\ results[2].amount = Some(360)

\* C17: the override map changes only the results at the positions it
\* lists: a replacement sets unit_price and recomputes amount from it, a
\* clear makes both unknown, every other field and every unlisted result is
\* as resolved, positions past the end of the list are ignored, and the
\* results are one per request in the order of the request list.
C17_OverridesTouchListedPositions ==
    ~raised
    => /\ Len(results) = Len(requests)
       /\ Len(resolved) = Len(requests)
       /\ \A k \in 1..Len(results) :
            /\ results[k].request = requests[k]
            /\ IF (k - 1) \in DOMAIN overrides
               THEN LET o == overrides[k - 1]
                        q == requests[k].purchase_quantity
                    IN  /\ results[k].unit_price = o
                        /\ results[k].amount
                             = IF IsNone(o) \/ IsNone(q) THEN None
                               ELSE Some(Val(o) * Val(q))
                        /\ [results[k] EXCEPT
                              !.unit_price = resolved[k].unit_price,
                              !.amount = resolved[k].amount] = resolved[k]
               ELSE results[k] = resolved[k]

\* two requests resolved at 100; the map clears position 0 and names
\* position 2, past the end of the list
C17_Witness ==
    /\ Len(results) = 2
    /\ DOMAIN overrides = {0, 2}
    /\ overrides[0] = None
    /\ overrides[2] = Some(150)
    /\ resolved[1].unit_price = Some(100)
    /\ IsNone(results[1].unit_price) /\ IsNone(results[1].amount)
    /\ results[2] = resolved[2]
    /\ results[2].unit_price = Some(100)

\* C19 as stated: at every point of a result's life, after resolution and
\* after overrides, matched is true exactly when status is priced, and
\* status is priced exactly when unit_price is known.
C19_StatusTracksPriceAlways ==
    \A k \in 1..Len(results) :
      /\ results[k].matched <=> results[k].status = "priced"
      /\ results[k].status = "priced" <=> ~IsNone(results[k].unit_price)

\* C19 amended: matched is true exactly when status is priced at every
\* point; status and matched are those of the resolution, where status is
\* priced exactly when the resolved unit_price is known; a result that no
\* override position names still has status priced exactly when its
\* unit_price is known.
C19_StatusTracksResolution ==
    \A k \in 1..Len(results) :
      /\ results[k].matched <=> results[k].status = "priced"
      /\ results[k].status = resolved[k].status
      /\ resolved[k].status = "priced" <=> ~IsNone(resolved[k].unit_price)
      /\ (k - 1) \notin DOMAIN overrides
           => (results[k].status = "priced" <=> ~IsNone(results[k].unit_price))

\* a priced result whose price an override cleared, next to a result that
\* no override names and that kept its resolved price
C19_Witness ==
    \E k, n \in 1..Len(results) :
      /\ (k - 1) \in DOMAIN overrides
      /\ results[k].status = "priced"
      /\ results[k].matched
      /\ IsNone(results[k].unit_price)
      /\ (n - 1) \notin DOMAIN overrides
      /\ results[n].status = "priced"
      /\ results[n].unit_price = Some(100)

-----------------------------------------------------------------------------
(***************************************************************************)
(* SpecSheet: the two sheet parsers run on grids of up to MaxGridRows rows *)
(* drawn from label rows (complete, incomplete, permuted, with a repeated  *)
(* or synonym label, written with stray whitespace and decomposed jamo),   *)
(* a row of numbers and a blank row.                                       *)
(***************************************************************************)
Rotate(seq, k) == [i \in 1..Len(seq) |-> seq[((i + k - 1) % Len(seq)) + 1]]

\* a label as a sheet spells it: 수량 in decomposed jamo, 단가 wrapped over
\* two lines, 품명 with stray spaces
Spelled(label) ==
    IF label = L_quantity THEN <<"J_s", "J_u", "ryang">>
    ELSE IF label = L_unit_price THEN <<"dan", "\n", "ga">>
    ELSE IF label = L_item_name THEN <<" ", "pum", " ", "myeong">>
    ELSE label

OtherText == <<"bi", "go">>

\* labels rotated by rot, the label at position drop (if any) replaced by
\* other text, and one more cell put in front or behind
LabelRow(labels, rot, drop, extra, front) ==
    LET base == [i \in 1..Len(labels) |->
                   IF i = drop THEN StrCell(OtherText)
                   ELSE StrCell(Spelled(Rotate(labels, rot)[i]))]
    IN  IF front THEN <<extra>> \o base ELSE base \o <<extra>>

DigitChar == <<"1", "2", "3", "4", "5", "6", "7">>
NumberRow(width) == [c \in 1..width |-> StrCell(<<DigitChar[c]>>)]
BlankRow(width) == [c \in 1..width |-> NaNCell]

EstimateSheetRows ==
    { LabelRow(REQUIRED_HEADERS, rot, drop, extra, TRUE) :
        rot \in {0, 3}, drop \in {0, 6},
        extra \in {NaNCell, StrCell(L_item_name)} }
    \cup {NumberRow(7), BlankRow(7)}

RequestSheetRows ==
    { LabelRow(REQUEST_HEADERS, 0, drop, extra, front) :
        drop \in {0, 5}, front \in BOOLEAN,
        extra \in {NaNCell, StrCell(L_quantity)} }
    \cup {NumberRow(6), BlankRow(6)}

Grids(rows) == UNION { [1..n -> rows] : n \in 1..MaxGridRows }

NextSheet ==
    \/ /\ sheet_kind = "none"
       /\ \E grid \in Grids(EstimateSheetRows) : ParseEstimateSheet(grid)
    \/ /\ sheet_kind = "none"
       /\ \E grid \in Grids(RequestSheetRows) : ParseRequestSheet(grid)
    \/ DiscardSheet

SpecSheet == Init /\ [][NextSheet]_vars

ColumnsOf(row, label) ==
    { c \in 0..(Len(row) - 1) : normalize_text(row[c + 1]) = label }

HasEveryLabel(row, labels) ==
    \A h \in Range(labels) : ColumnsOf(row, h) # {}

Lowest(S) == CHOOSE c \in S : \A d \in S : c <= d

\* C9: the header of a price sheet is the first row, top to bottom, whose
\* normalized cells contain every required label, each label mapped to the
\* lowest column where the row has it; rows above it are skipped, and a grid
\* without such a row yields no rows and no error.
C9_FirstCompleteRowIsHeader ==
    sheet_kind = "estimate"
    => IF \E i \in 1..Len(df) : HasEveryLabel(df[i], REQUIRED_HEADERS)
       THEN /\ ~IsNone(header_info)
            /\ LET info == Val(header_info)
                   pos == info.row_idx + 1
               IN  /\ pos \in 1..Len(df)
                   /\ HasEveryLabel(df[pos], REQUIRED_HEADERS)
                   /\ \A j \in 1..(pos - 1) :
                        ~HasEveryLabel(df[j], REQUIRED_HEADERS)
                   /\ DOMAIN info.header_map = Range(REQUIRED_HEADERS)
                   /\ \A h \in Range(REQUIRED_HEADERS) :
                        info.header_map[h] = Lowest(ColumnsOf(df[pos], h))
       ELSE /\ IsNone(header_info)
            /\ parsed = <<>>
            /\ ~raised

\* an incomplete label row is skipped, the header below it repeats a label,
\* and the number row under it is extracted
C9_Witness ==
    /\ sheet_kind = "estimate"
    /\ ~IsNone(header_info)
    /\ Val(header_info).row_idx = 1
    /\ \E h \in Range(REQUIRED_HEADERS) : ColumnsOf(df[1], h) # {}
    /\ Cardinality(ColumnsOf(df[2], L_item_name)) = 2
    /\ Len(parsed) = 1

\* C10: when the header row of a request sheet has the label 구매량, in
\* either order with a 수량 column, purchase_quantity is read from the 구매량
\* column; a 수량 column supplies it only when 구매량 is absent.
C10_CanonicalQuantityColumn ==
    (sheet_kind = "request" /\ ~IsNone(header_info))
    => LET info == Val(header_info)
           header == df[info.row_idx + 1]
           canonical == ColumnsOf(header, L_purchase_quantity)
           synonym == ColumnsOf(header, L_quantity)
           column == IF canonical # {} THEN Lowest(canonical) ELSE Lowest(synonym)
       IN  \A k \in 1..Len(parsed) :
             \E j \in (info.row_idx + 2)..Len(df) :
               /\ parsed[k].purchase_quantity = to_float(df[j][column + 1])
               /\ parsed[k].item_name
                    = normalize_text(df[j][info.header_map[L_item_name] + 1])

-----------------------------------------------------------------------------
(***************************************************************************)
(* SpecRegion: the two sheet parsers run on a header row followed by up to *)
(* MaxRegionRows rows, each a data row carrying its position as item_name, *)
(* a row with values but a whitespace-only item_name, or a blank row of    *)
(* empty and whitespace-only cells.                                        *)
(***************************************************************************)
MaxRegionRows == 6

HeaderRow(labels) == [c \in 1..Len(labels) |-> StrCell(labels[c])]

RowKinds == {"data", "no_name", "blank"}

RegionRow(kind, pos, width) ==
    [c \in 1..width |->
       CASE kind = "data" ->
              IF c = 1 THEN StrCell(<<DigitChar[pos]>>) ELSE StrCell(<<"8">>)
         [] kind = "no_name" ->
              IF c = 1 THEN StrCell(<<" ">>) ELSE StrCell(<<"8">>)
         [] OTHER ->
              IF c = 2 THEN StrCell(<<" ", "\n">>) ELSE NaNCell]

RegionGrids(labels) ==
    { <<HeaderRow(labels)>> \o
        [i \in 1..Len(kinds) |-> RegionRow(kinds[i], i, Len(labels))] :
      kinds \in UNION { [1..n -> RowKinds] : n \in 1..MaxRegionRows } }

NextRegion ==
    \/ /\ sheet_kind = "none"
       /\ \E grid \in RegionGrids(REQUIRED_HEADERS) : ParseEstimateSheet(grid)
    \/ /\ sheet_kind = "none"
       /\ \E grid \in RegionGrids(REQUEST_HEADERS) : ParseRequestSheet(grid)
    \/ DiscardSheet

SpecRegion == Init /\ [][NextRegion]_vars

SheetLabels == IF sheet_kind = "estimate" THEN REQUIRED_HEADERS ELSE REQUEST_HEADERS

\* the cell of grid row j under the header label key
RegionCell(j, key) == df[j][Val(header_info).header_map[key] + 1]

\* grid rows below the header
RegionRows == (Val(header_info).row_idx + 2)..Len(df)

IsBlankRow(j) ==
    \A key \in Range(SheetLabels) : normalize_text(RegionCell(j, key)) = <<>>

IsNamedRow(j) == normalize_text(RegionCell(j, L_item_name)) # <<>>

IsNoNameRow(j) == ~IsBlankRow(j) /\ ~IsNamedRow(j)

\* a record extracted from grid row j is among the parsed rows
Extracted(j) ==
    \E k \in 1..Len(parsed) :
      parsed[k].item_name = normalize_text(RegionCell(j, L_item_name))

\* two consecutive blank rows, after at least one data row, lie above row j
EndedAbove(j) ==
    \E b \in RegionRows :
      /\ b + 1 < j
      /\ IsBlankRow(b) /\ IsBlankRow(b + 1)
      /\ \E d \in RegionRows : d < b /\ ~IsBlankRow(d)

HasNoNameRow == \E j \in RegionRows : IsNoNameRow(j)

\* C11: for both extractors, over data and blank rows, a row with an item
\* name is extracted exactly when no two consecutive blank rows that follow
\* a data row lie above it: a single blank row between data rows and any
\* number of blank rows before the first data row do not end extraction,
\* and nothing after the second of two consecutive blanks is extracted.
C11_TwoBlankRowsEndRegion ==
    (sheet_kind # "none" /\ ~IsNone(header_info) /\ ~HasNoNameRow)
    => \A j \in RegionRows :
         IsNamedRow(j) => (Extracted(j) <=> ~EndedAbove(j))

\* data, blank, data, blank, blank, data: the first two data rows are
\* extracted by the request parser and the third is not
C11_Witness ==
    /\ sheet_kind = "request"
    /\ Len(df) = 7
    /\ ~HasNoNameRow
    /\ IsNamedRow(2) /\ IsBlankRow(3) /\ IsNamedRow(4)
    /\ IsBlankRow(5) /\ IsBlankRow(6) /\ IsNamedRow(7)
    /\ Extracted(2) /\ Extracted(4) /\ ~Extracted(7)

\* C12: a row with a value in some required column but an empty item_name
\* yields no record, and it is not counted as an empty row: a named row
\* below it is extracted unless two consecutive blank rows lie in between
\* (or extraction had ended above the nameless row).
C12_NamelessRowIsNotBlank ==
    (sheet_kind # "none" /\ ~IsNone(header_info))
    => /\ Len(parsed)
            = Cardinality({ j \in RegionRows : IsNamedRow(j) /\ Extracted(j) })
       /\ \A n \in RegionRows, j \in RegionRows :
            ( /\ IsNoNameRow(n) /\ ~EndedAbove(n)
              /\ n < j /\ IsNamedRow(j)
              /\ ~\E b \in (n + 1)..(j - 2) : IsBlankRow(b) /\ IsBlankRow(b + 1) )
            => Extracted(j)

\* data, blank, nameless, blank, data: both data rows are extracted by the
\* price-sheet parser
C12_Witness ==
    /\ sheet_kind = "estimate"
    /\ Len(df) = 6
    /\ IsNamedRow(2) /\ IsBlankRow(3) /\ IsNoNameRow(4)
    /\ IsBlankRow(5) /\ IsNamedRow(6)
    /\ Extracted(2) /\ Extracted(6)
    /\ Len(parsed) = 2

-----------------------------------------------------------------------------
(***************************************************************************)
(* SpecIngest: build_db runs over folders of up to two documents, each     *)
(* unreadable or a price sheet whose cells carry stray whitespace and      *)
(* decomposed jamo; request sheets are parsed and their rows resolved      *)
(* against the table (web_app.match_request_api).                          *)
(***************************************************************************)
MaxIngestRecords == 3
MaxRuns == 2

\* a price-sheet row in the column order of REQUIRED_HEADERS
PriceSheetRow(name, spec, price) ==
    <<name, spec, NaNCell, StrCell(<<"3">>), price, NaNCell>>

PriceGrids ==
    { <<HeaderRow(REQUIRED_HEADERS)>>,
      <<HeaderRow(REQUIRED_HEADERS),
        PriceSheetRow(StrCell(<<" ", "B", "\n", "A">>),
                      StrCell(<<"A", " ", "1">>), StrCell(<<"5">>))>>,
      <<HeaderRow(REQUIRED_HEADERS),
        PriceSheetRow(StrCell(<<" ">>), StrCell(<<"A", "1">>), StrCell(<<"5">>)),
        PriceSheetRow(StrCell(<<"J_s", " ", "J_u">>), NaNCell, NaNCell)>> }

IngestDocuments ==
    { Document(f, FALSE, <<>>) : f \in EstimateFiles }
    \cup { Document(f, TRUE, parse_estimate_sheet(g)) :
             f \in EstimateFiles, g \in PriceGrids }

\* the folders: every listing of up to two documents with distinct paths
IngestRuns ==
    { <<d>> : d \in IngestDocuments }
    \cup { pair \in IngestDocuments \X IngestDocuments :
               pair[1].path # pair[2].path }

\* a request-sheet row in the column order of REQUEST_HEADERS
RequestSheetRow(name, spec) ==
    <<name, spec, NaNCell, NaNCell, StrCell(<<"3">>)>>

IngestRequestGrids ==
    { <<HeaderRow(REQUEST_HEADERS),
        RequestSheetRow(StrCell(<<"B", " ", "A">>), StrCell(<<"A", "\n", "1">>))>>,
      <<HeaderRow(REQUEST_HEADERS),
        RequestSheetRow(StrCell(<<"\n">>), StrCell(<<"A", "1">>)),
        RequestSheetRow(StrCell(<<"J_s", "J_u">>), NaNCell)>> }

\* the RequestRow list parse_request hands to match_prices
RequestsOf(rows) ==
    [k \in 1..Len(rows) |->
       RequestRow(rows[k].item_name, rows[k].spec_code,
                  rows[k].purchase_quantity)]

NextIngest ==
    \/ /\ runs < MaxRuns
       /\ \E files \in IngestRuns :
            Len(db) + RowsIn(files) <= MaxIngestRecords /\ BuildDb(files)
    \/ /\ sheet_kind = "none"
       /\ \E grid \in IngestRequestGrids : ParseRequestSheet(grid)
    \/ sheet_kind = "request" /\ MatchPrices(RequestsOf(parsed))
    \/ DiscardSheet
    \/ DiscardResults

SpecIngest == Init /\ [][NextIngest]_vars

NoWhitespace(t) == \A i \in 1..Len(t) : ~IsSpace(t[i])

NormalizedKeys(record) ==
    /\ record.item_name # <<>>
    /\ NoWhitespace(record.item_name)
    /\ NoWhitespace(record.spec_code)

\* C13: after any sequence of ingestions and extractions, every record of
\* the table and every extracted request row has a non-empty item_name, and
\* its item_name and spec_code contain no whitespace character.
C13_StoredKeysNormalized ==
    /\ \A i \in 1..Len(db) : NormalizedKeys(db[i])
    /\ sheet_kind = "request"
         => \A k \in 1..Len(parsed) : NormalizedKeys(parsed[k])
    /\ \A k \in 1..Len(requests) : NormalizedKeys(requests[k])

\* two runs have loaded " B\nA" / "A 1" and the row under a nameless row,
\* and a request sheet with a nameless row has been extracted
C13_Witness ==
    /\ runs = 2
    /\ \E i \in 1..Len(db) :
         db[i].item_name = <<"B", "A">> /\ db[i].spec_code = <<"A", "1">>
    /\ \E i \in 1..Len(db) : db[i].item_name = <<"J_s", "J_u">>
    /\ sheet_kind = "request"
    /\ Len(df) = 3 /\ Len(parsed) = 1

-----------------------------------------------------------------------------
(***************************************************************************)
(* SpecText: normalize_text is called on None, NaN, ints and strings of up *)
(* to MaxTextLen characters that mix whitespace, the conjoining jamo and   *)
(* the syllable they compose.                                              *)
(***************************************************************************)
MaxTextLen == 3

TextChars == {"J_s", "J_u", "su", " ", "\n", "1"}

Texts == UNION { [1..n -> TextChars] : n \in 0..MaxTextLen }

TextInputs ==
    {NoneCell, NaNCell}
    \cup { IntCell(t) : t \in { <<"1">>, <<"1", "2">> } }
    \cup { StrCell(t) : t \in Texts }

NextText == \E value \in TextInputs : NormalizeText(value)

SpecText == Init /\ [][NextText]_vars

\* C14: normalize is idempotent: normalizing what normalize_text returned
\* gives the same text, whatever the input was.
C14_NormalizeIdempotent ==
    normalize_text(StrCell(norm_ret)) = norm_ret

IsReadable(doc) == doc.readable

RECURSIVE RunRows(_)
\* the rows extracted from the documents of a folder, in listing order
RunRows(files) ==
    IF files = <<>> THEN <<>>
    ELSE parse_estimate_file(Head(files)) \o RunRows(Tail(files))

\* C15: in a run over several documents, a document that cannot be read
\* fails on its own: the rows of every readable document of the last run
\* are in the table after it.
C15_UnreadableDocumentFailsAlone ==
    run_files # <<>>
    => EndsWith(db, RunRows(SelectSeq(run_files, IsReadable)))

\* C16: the table is append-only across runs: a run leaves the earlier
\* rows in place and unchanged, a run that succeeds appends exactly the rows
\* extracted from its documents, one record per row with no deduplication,
\* and nothing but a run changes the table.
C16_AppendOnly ==
    [][ IF runs' # runs
        THEN /\ SubSeq(db', 1, Len(db)) = db
             /\ ~raised' => db' = db \o RunRows(run_files')
        ELSE db' = db ]_vars

\* the same one-row document was ingested twice and the table holds its
\* row twice
C16_Witness ==
    /\ runs = 2
    /\ ~raised
    /\ Len(run_files) = 1
    /\ Len(db) = 2
    /\ db[1] = db[2]
    /\ db = RunRows(run_files) \o RunRows(run_files)

\* C18: a resolution against a table without rows raises instead of
\* returning results, also when the table was created by a run whose
\* documents yielded no rows.
C18_EmptyIndexRaises ==
    (requests # <<>> /\ db = <<>>) => (raised /\ results = <<>>)

-----------------------------------------------------------------------------
(***************************************************************************)
(* SpecRun: build_db runs step by step over the folders of SpecIngest      *)
(* while a request is resolved, on a connection of its own, at any point   *)
(* of a run.                                                               *)
(***************************************************************************)
RunRequests == << RequestRow(<<"B", "A">>, <<"A", "1">>, Some(3)) >>

NextRun ==
    \/ /\ runs < MaxRuns
       /\ ~conn_open
       /\ \E files \in IngestRuns :
            Len(db) + RowsIn(files) <= MaxIngestRecords /\ BuildOpen(files)
    \/ BuildFile
    \/ BuildCommit
    \/ MatchPrices(RunRequests)
    \/ DiscardResults

SpecRun == Init /\ [][NextRun]_vars

\* C20: a run is all-or-nothing for the table: the table changes only at
\* the commit that follows the last document, by all the rows of the run at
\* once; a run that fails leaves the table as it was; and the result of a
\* resolution is computed from the committed table alone, whatever the run
\* under way has inserted.
C20_RunIsAllOrNothing ==
    [][ /\ \/ db' = db
           \/ /\ conn_open /\ ~conn_open' /\ ~raised'
              /\ queue = <<>>
              /\ db' = db \o RunRows(run_files)
        /\ (conn_open /\ ~conn_open' /\ raised') => db' = db
        /\ (results' # results /\ results' # <<>>)
             => results' \in match_prices(db, requests') ]_vars

\* the first run has inserted the row "BA"/"A1" at price 5 and not yet
\* committed; a resolution of that key during the run found no price
C20_Witness ==
    /\ runs = 1
    /\ conn_open
    /\ db = <<>>
    /\ \E i \in 1..Len(pending) :
         /\ pending[i].item_name = <<"B", "A">>
         /\ pending[i].unit_price = Some(5)
    /\ Len(results) = 1
    /\ results[1].status = "no_price_found"

====
